---- MODULE Spec2Model ----
(***************************************************************************)
(* The WalletConnect Connector: two connectors (a dApp "d" and a wallet     *)
(* "w") that talk through a relay.  Every suspension point of the source    *)
(* (generateKey, encrypt, decrypt, socket open, relay delivery) is a step   *)
(* of its own; the code between two suspension points is one step.          *)
(***************************************************************************)
EXTENDS Naturals, Integers, Sequences, FiniteSets, TLC

(* ------------------------------ bounds --------------------------------- *)
\* keys the crypto library can generate (generateKey returns a fresh key)
MaxKeys == 3
\* request ids payloadId() can allocate
MaxIds == 3
\* handshake topics uuid() can allocate
MaxUuid == 2
\* page reloads: Connector instances constructed after a peer's first one
MaxReloads == 1
\* approveSession / rejectSession / approveRequest calls by the applications
MaxAppCalls == 2
\* crypto operations one connector may have pending at a time
MaxTasks == 2
\* frames the bridge hands to a socket outside its subscriptions
MaxReplays == 1

(* ------------------------------ values --------------------------------- *)
Peers == {"d", "w"}
Other(p) == IF p = "d" THEN "w" ELSE "d"

\* _key / _nextKey: null
NoKey == 0
\* the handshake topics uuid() yields in createSession, in order
HandshakeTopics == <<"h1", "h2", "h3", "h4">>
\* JavaScript null for an accounts array (an empty array is a value)
NullAccounts == <<"null">>

\* the session status the wallet application approves
ApprovedStatus == [chainId |-> 1, accounts |-> <<"0xabc">>]

NoBody ==
    [tag |-> "none", approved |-> FALSE, chainId |-> 0, accounts |-> NullAccounts,
     message |-> "", peerId |-> "", nextKey |-> NoKey, val |-> ""]
\* ISessionParams
SessionParams(approved, chainId, accounts, message) ==
    [NoBody EXCEPT !.tag = "session", !.approved = approved, !.chainId = chainId,
                   !.accounts = accounts, !.message = message]
\* params[0] of wc_sessionRequest and wc_exchangeKey
PeerParams(peerId, nextKey) ==
    [NoBody EXCEPT !.tag = "peer", !.peerId = peerId, !.nextKey = nextKey]
\* a plain result value
Value(v) == [NoBody EXCEPT !.tag = "val", !.val = v]

NoMsg == [kind |-> "none", id |-> 0, method |-> "", body |-> NoBody]
Request(id, method, body) == [kind |-> "req", id |-> id, method |-> method, body |-> body]
Response(id, body) == [kind |-> "res", id |-> id, method |-> "", body |-> body]
\* a response that has an error field and no result field
ErrorResponse(id, message) ==
    [kind |-> "err", id |-> id, method |-> "", body |-> Value(message)]
\* IInternalEvent: {event, params}
InternalEvent(event, body) == [kind |-> "evt", id |-> 0, method |-> event, body |-> body]

\* payload of a frame: "" on a subscribe frame, JSON.stringify(null) when
\* _encrypt returned null, otherwise the envelope of the crypto library
EmptyPayload == [form |-> "empty", k |-> NoKey, msg |-> NoMsg]
NullPayload == [form |-> "null", k |-> NoKey, msg |-> NoMsg]
Envelope(k, msg) == [form |-> "env", k |-> k, msg |-> msg]

Frame(topic, type, payload) == [topic |-> topic, type |-> type, payload |-> payload]

NoSession == [present |-> FALSE]
\* a storage slot whose text JSON.parse cannot read
CorruptSession == [present |-> FALSE, text |-> "{"]

\* the bridge URL of the pages
BridgeUrl == "https://b"
encodeURIComponent(s) == IF s = "https://b" THEN "https%3A%2F%2Fb" ELSE s
decodeURIComponent(s) == IF s = "https%3A%2F%2Fb" THEN "https://b" ELSE s

\* the string `${protocol}:${handshakeTopic}@${version}?bridge=${bridge}&key=${key}`
Uri(protocol, handshakeTopic, version, bridge, key) ==
    [protocol |-> protocol, handshakeTopic |-> handshakeTopic, version |-> version,
     bridge |-> bridge, key |-> key]
\* the empty string as a URI
NoUri == Uri("", "", 0, "", NoKey)
\* the URI the first createSession of the dApp page shows
ShownUri == Uri("wc", "h1", 1, encodeURIComponent(BridgeUrl), 1)
\* the shown URI and the ways a URI string can be off
Uris ==
    {ShownUri,
     [ShownUri EXCEPT !.protocol = "http"],
     [ShownUri EXCEPT !.handshakeTopic = ""],
     [ShownUri EXCEPT !.bridge = ""],
     [ShownUri EXCEPT !.key = NoKey],
     [ShownUri EXCEPT !.version = 2]}
\* the IParseURIResult of a URI string
parseWalletConnectUri(uri) ==
    [protocol |-> uri.protocol, handshakeTopic |-> uri.handshakeTopic,
     version |-> uri.version, bridge |-> uri.bridge, key |-> uri.key]

\* no error was raised to the caller of a public method
NoError == [op |-> "", message |-> ""]
\* the session status of an updateSession call
UpdatedStatus == [chainId |-> 2, accounts |-> <<"0xabc", "0xdef">>]
\* the messages of a rejectSession / killSession call ("" is no sessionError)
Messages == {"bye"}
\* results a wallet returns for a call request ("" is a falsy result)
Results == {"0xdeadbeef", ""}
\* the methods of sendTransaction, signMessage and signTypedData
CallMethods == {"eth_sendTransaction", "eth_sign", "eth_signTypedData"}

(* ---------------------------- variables -------------------------------- *)
VARIABLES
    conn,       \* conn[p]: the fields of peer p's Connector, its pending crypto
                \* operations, its localStorage slot and what it has sent
    relay,      \* relay[t]: the frames published on topic t and not yet delivered
    subs,       \* subs[t]: the peers subscribed to topic t
    nextId,     \* the next value of payloadId()
    nextGen,    \* the next key of generateKey()
    nextUuid    \* the index of the next handshake topic of uuid()

vars == <<conn, relay, subs, nextId, nextGen, nextUuid>>

Topics == {"d", "w", ""} \cup {HandshakeTopics[i] : i \in 1..Len(HandshakeTopics)}

(* --------------------------- the Connector ----------------------------- *)
\* state after the field initialisers of the constructor; the storage slot
\* and the number of instances belong to the page, not to the instance
Fields(p, store, built) ==
    [built |-> built, alive |-> FALSE,
     _connected |-> FALSE, _key |-> NoKey, _nextKey |-> NoKey,
     _clientId |-> p, _peerId |-> "", _handshakeId |-> 0, _handshakeTopic |-> "",
     _bridge |-> "",
     _accounts |-> <<>>, _chainId |-> 0, _socket |-> FALSE, _queue |-> <<>>,
     _eventEmitters |-> <<>>, promises |-> {}, tasks |-> <<>>,
     store |-> store, sent |-> <<>>, events |-> <<>>, appCalls |-> 0,
     overlap |-> FALSE, thrown |-> NoError, heard |-> <<>>]

pending(c) == c._handshakeTopic # ""

session(c) ==
    [present |-> TRUE, connected |-> c._connected, accounts |-> c._accounts,
     chainId |-> c._chainId, bridge |-> c._bridge, key |-> c._key,
     clientId |-> c._clientId,
     peerId |-> c._peerId, handshakeId |-> c._handshakeId,
     handshakeTopic |-> c._handshakeTopic]

\* the setters of key, clientId, peerId, handshakeId and handshakeTopic ignore
\* a falsy value; connected, accounts and chainId are assigned as they are
SetSession(c, s) ==
    [c EXCEPT !._connected = s.connected,
              !._accounts = s.accounts,
              !._chainId = s.chainId,
              !._bridge = IF s.bridge # "" THEN s.bridge ELSE @,
              !._key = IF s.key # NoKey THEN s.key ELSE @,
              !._clientId = IF s.clientId # "" THEN s.clientId ELSE @,
              !._peerId = IF s.peerId # "" THEN s.peerId ELSE @,
              !._handshakeId = IF s.handshakeId # 0 THEN s.handshakeId ELSE @,
              !._handshakeTopic = IF s.handshakeTopic # "" THEN s.handshakeTopic ELSE @]

_setStorageSession(c) ==
    [c EXCEPT !.store = session(c)]

_removeStorageSession(c) == [c EXCEPT !.store = NoSession]

on(c, event, id, callback) ==
    [c EXCEPT !._eventEmitters =
        Append(@, [event |-> event, id |-> id, callback |-> callback])]

_setToQueue(c, socketMessage) == [c EXCEPT !._queue = Append(@, socketMessage)]

_socketSend(c, socketMessage) == [c EXCEPT !.sent = Append(@, socketMessage)]

\* the end of _sendRequest and _sendResponse: to the socket or to the queue
Submit(c, socketMessage) ==
    IF c._socket THEN _socketSend(c, socketMessage) ELSE _setToQueue(c, socketMessage)

_dispatchQueue(c) == [c EXCEPT !.sent = @ \o c._queue, !._queue = <<>>]

\* the event key _triggerEvents computes: the method of a request,
\* response:<id> for a payload with a result field, the event of a synthetic
\* event, and "" for anything else
EventKey(payload) ==
    CASE payload.kind = "req" -> [event |-> payload.method, id |-> 0]
      [] payload.kind = "res" -> [event |-> "response", id |-> payload.id]
      [] payload.kind = "evt" -> [event |-> payload.method, id |-> 0]
      [] OTHER -> [event |-> "", id |-> 0]

\* the listeners _triggerEvents calls: those of the event key, and the
\* call_request listeners when there is none
Listeners(c, payload) ==
    LET key == EventKey(payload)
        eventEmitters ==
            IF key.event = "" THEN <<>>
            ELSE SelectSeq(c._eventEmitters,
                           LAMBDA e : e.event = key.event /\ e.id = key.id)
    IN  IF eventEmitters = <<>>
        THEN SelectSeq(c._eventEmitters, LAMBDA e : e.event = "call_request")
        ELSE eventEmitters

\* a callback of the application: what it was registered on and what it is
\* handed
Observe(c, e, payload) ==
    [c EXCEPT !.events = Append(@,
        [event |-> e.event, kind |-> payload.kind, key |-> EventKey(payload).event,
         id |-> payload.id, body |-> payload.body])]

RECURSIVE ObserveAll(_, _, _)
ObserveAll(c, eventEmitters, payload) ==
    IF eventEmitters = <<>> THEN c
    ELSE ObserveAll(Observe(c, Head(eventEmitters), payload), Tail(eventEmitters), payload)

\* _triggerEvents of a synthetic event: only callbacks of the application
\* are registered on connect, disconnect, session_update and call_request
Notify(c, event, body) ==
    ObserveAll(c, Listeners(c, InternalEvent(event, body)), InternalEvent(event, body))

\* a public method throws: the ghost remembers the error its caller gets
Throw(c, op, message) == [c EXCEPT !.thrown = [op |-> op, message |-> message]]

\* a public method is entered: no error yet
Enter(c) == [c EXCEPT !.thrown = NoError]

_formatUri(c) ==
    Uri("wc", c._handshakeTopic, 1, encodeURIComponent(c._bridge), c._key)

\* the message of the error _parseUri throws, "" when it returns
ParseUriError(c, uri) ==
    LET result == parseWalletConnectUri(uri)
    IN  IF result.protocol = "wc"
        THEN IF result.handshakeTopic = ""
             THEN "Invalid or missing handshakeTopic parameter value"
             ELSE IF result.bridge = ""
             THEN "Invalid or missing bridge url parameter value"
             ELSE IF result.key = NoKey
             THEN "Invalid or missing kkey parameter value"
             ELSE ""
        ELSE "URI format doesn't follow Connector protocol"

\* what _parseUri returns when it does not throw
_parseUri(c, uri) ==
    LET result == parseWalletConnectUri(uri)
    IN  [handshakeTopic |-> result.handshakeTopic,
         bridge |-> decodeURIComponent(result.bridge),
         key |-> result.key]

\* set uri(value)
SetUri(c, value) ==
    IF value = NoUri THEN c
    ELSE IF ParseUriError(c, value) # ""
    THEN Throw(c, "uri", ParseUriError(c, value))
    ELSE LET parsed == _parseUri(c, value)
         IN  [c EXCEPT
                !._handshakeTopic = IF parsed.handshakeTopic # ""
                                    THEN parsed.handshakeTopic ELSE @,
                !._bridge = IF parsed.bridge # "" THEN parsed.bridge ELSE @,
                !._key = IF parsed.key # NoKey THEN parsed.key ELSE @]

_subscribeToSessionRequest(c) ==
    _setToQueue(c, Frame(c._handshakeTopic, "sub", EmptyPayload))

_swapKey(c) ==
    _setStorageSession([c EXCEPT !._key = c._nextKey, !._nextKey = NoKey])

\* a crypto operation in progress: the key it was started with, what it
\* works on, and where the code resumes
Task(kind, k, msg, topic, then) ==
    [kind |-> kind, k |-> k, msg |-> msg, topic |-> topic, then |-> then,
     open |-> FALSE]

Spawn(c, task) == [c EXCEPT !.tasks = Append(@, task)]

\* the encryption of an outbound payload is started; the ghost open
\* remembers whether the socket was open then
Encrypting(c, msg, topic, then) ==
    [Task("encrypt", c._key, msg, topic, then) EXCEPT !.open = c._socket]

\* _encrypt reads this._key when it is called; without a key it returns null
\* and the caller resumes within the same job
_sendRequest(c, request, _topic) ==
    IF c._key = NoKey
    THEN Submit(c, Frame(IF _topic # "" THEN _topic ELSE c._peerId, "pub", NullPayload))
    ELSE Spawn(c, Encrypting(c, request, _topic, "send"))

_sendResponse(c, response, then) ==
    IF c._key = NoKey
    THEN LET c1 == Submit(c, Frame(c._peerId, "pub", NullPayload))
         IN  IF then = "swap" THEN _swapKey(c1) ELSE c1
    ELSE Spawn(c, Encrypting(c, response, "", then))

_subscribeToSessionResponse(c, id, errorMsg) == on(c, "response", id, errorMsg)

_sendSessionRequest(c, request, errorMsg, _topic) ==
    _subscribeToSessionResponse(_sendRequest(c, request, _topic), request.id, errorMsg)

\* the promise of _subscribeToCallResponse and the code that awaits it
_sendCallRequest(c, request, awaiting) ==
    LET c1 == on(_sendRequest(c, request, ""), "response", request.id, "call")
    IN  [c1 EXCEPT !.promises = @ \cup
            {[id |-> request.id, awaiting |-> awaiting, state |-> "pending", val |-> ""]}]

\* _handleSessionResponse that fires session_update whatever _connected was
HandleSessionResponseOneEvent(c, sessionParams, errorMsg) ==
    IF sessionParams.approved
    THEN LET c1 == [c EXCEPT
                 !._connected = TRUE,
                 !._chainId = IF sessionParams.chainId # 0
                              THEN sessionParams.chainId ELSE @,
                 !._accounts = IF sessionParams.accounts # NullAccounts
                               THEN sessionParams.accounts ELSE @]
         IN  _setStorageSession(
                Notify(c1, "session_update",
                       SessionParams(TRUE, c1._chainId, c1._accounts, "")))
    ELSE LET message == IF sessionParams.message # "" THEN sessionParams.message
                        ELSE errorMsg
         IN  _removeStorageSession(
                Notify([c EXCEPT !._connected = FALSE], "disconnect",
                       SessionParams(FALSE, 0, NullAccounts, message)))

_handleSessionResponse(c, sessionParams, errorMsg) ==
    IF sessionParams.approved
    THEN LET c1 == [c EXCEPT
                 !._connected = TRUE,
                 !._chainId = IF sessionParams.chainId # 0
                              THEN sessionParams.chainId ELSE @,
                 !._accounts = IF sessionParams.accounts # NullAccounts
                               THEN sessionParams.accounts ELSE @]
             event == IF ~c._connected THEN "connect" ELSE "session_update"
         IN  _setStorageSession(
                Notify(c1, event, SessionParams(TRUE, c1._chainId, c1._accounts, "")))
    ELSE LET message == IF sessionParams.message # "" THEN sessionParams.message
                        ELSE errorMsg
         IN  _removeStorageSession(
                Notify([c EXCEPT !._connected = FALSE], "disconnect",
                       SessionParams(FALSE, 0, NullAccounts, message)))

\* _exchangeKey up to its first await
_exchangeKey(c) == Spawn(c, Task("generateKey", NoKey, NoMsg, "", "exchangeKey"))

\* _exchangeKey from the key being generated to the await of the response
ExchangeKeyResume(c, k, id) ==
    LET c1 == [c EXCEPT !._nextKey = k, !.overlap = @ \/ c._nextKey # NoKey]
    IN  _sendCallRequest(c1,
            Request(id, "wc_exchangeKey", PeerParams(c1._clientId, c1._nextKey)),
            "swapKey")

_handleExchangeKeyRequest(c, payload) ==
    LET c1 == [c EXCEPT
                 !._peerId = IF payload.body.peerId # "" THEN payload.body.peerId ELSE @,
                 !._nextKey = IF payload.body.nextKey # NoKey
                              THEN payload.body.nextKey ELSE @]
    IN  _sendResponse(c1, Response(payload.id, Value("true")), "swap")

\* createSession from the key being generated to its end
CreateSessionResume(c, k, id, topic) ==
    LET request == Request(id, "wc_sessionRequest", PeerParams(c._clientId, NoKey))
        c1 == [c EXCEPT !._key = k, !._handshakeId = id, !._handshakeTopic = topic]
    IN  _setStorageSession(
            _sendSessionRequest(c1, request, "Session update rejected", c1._handshakeTopic))

\* createSession up to the await of _generateKey
createSession(c) ==
    IF c._connected THEN Throw(c, "createSession", "Session currently connected")
    ELSE IF pending(c) THEN c
    ELSE Spawn(c, Task("generateKey", NoKey, NoMsg, "", "createSession"))

\* approveSession without its check of _connected
ApproveSessionUnguarded(c, sessionStatus) ==
    LET c1 == [c EXCEPT !._chainId = sessionStatus.chainId,
                        !._accounts = sessionStatus.accounts]
        sessionParams == SessionParams(TRUE, c1._chainId, c1._accounts, "")
        c2 == _sendResponse(c1, Response(c1._handshakeId, sessionParams), "send")
    IN  _setStorageSession(
            Notify([c2 EXCEPT !._connected = TRUE], "connect", sessionParams))

approveSession(c, sessionStatus) ==
    LET c1 == [c EXCEPT !._chainId = sessionStatus.chainId,
                        !._accounts = sessionStatus.accounts]
        sessionParams == SessionParams(TRUE, c1._chainId, c1._accounts, "")
        c2 == _sendResponse(c1, Response(c1._handshakeId, sessionParams), "send")
    IN  IF c._connected THEN Throw(c, "approveSession", "Session currently connected")
        ELSE _setStorageSession(
                Notify([c2 EXCEPT !._connected = TRUE], "connect", sessionParams))

rejectSession(c, message) ==
    LET sessionParams == SessionParams(FALSE, 0, NullAccounts, message)
        c1 == _sendResponse(c, Response(c._handshakeId, sessionParams), "send")
    IN  IF c._connected THEN Throw(c, "rejectSession", "Session currently connected")
        ELSE _removeStorageSession(
                Notify([c1 EXCEPT !._connected = FALSE], "disconnect", sessionParams))

\* updateSession without its check of _connected
UpdateSessionUnguarded(c, sessionStatus, id) ==
    LET c1 == [c EXCEPT !._chainId = sessionStatus.chainId,
                        !._accounts = sessionStatus.accounts]
        sessionParams == SessionParams(TRUE, c1._chainId, c1._accounts, "")
        request == Request(id, "wc_sessionUpdate", sessionParams)
        c2 == _sendSessionRequest(c1, request, "Session update rejected", "")
    IN  _setStorageSession(Notify(c2, "session_update", sessionParams))

updateSession(c, sessionStatus, id) ==
    LET c1 == [c EXCEPT !._chainId = sessionStatus.chainId,
                        !._accounts = sessionStatus.accounts]
        sessionParams == SessionParams(TRUE, c1._chainId, c1._accounts, "")
        request == Request(id, "wc_sessionUpdate", sessionParams)
        c2 == _sendSessionRequest(c1, request, "Session update rejected", "")
    IN  IF ~c._connected THEN Throw(c, "updateSession", "Session currently disconnected")
        ELSE _setStorageSession(Notify(c2, "session_update", sessionParams))

killSession(c, message, id) ==
    LET sessionParams == SessionParams(FALSE, 0, NullAccounts, message)
        request == Request(id, "wc_sessionUpdate", sessionParams)
        c1 == _sendSessionRequest(c, request, "Session kill rejected", "")
    IN  IF ~c._connected THEN Throw(c, "killSession", "Session currently disconnected")
        ELSE _removeStorageSession(
                Notify([c1 EXCEPT !._connected = FALSE], "disconnect", sessionParams))

\* sendTransaction, signMessage and signTypedData differ in the method only:
\* each returns the promise of _sendCallRequest to its caller
sendCall(c, method, id) ==
    IF ~c._connected THEN Throw(c, method, "Session currently disconnected")
    ELSE _sendCallRequest(c, Request(id, method, Value("params")), "caller")

sendTransaction(c, id) == sendCall(c, "eth_sendTransaction", id)

signMessage(c, id) == sendCall(c, "eth_sign", id)

signTypedData(c, id) == sendCall(c, "eth_signTypedData", id)

approveRequest(c, response) == _sendResponse(c, response, "send")

rejectRequest(c, response) == _sendResponse(c, response, "send")

(* ----------------------------- dispatch -------------------------------- *)
\* `if (payload.result)` of _subscribeToCallResponse
Truthy(body) == body.tag \in {"session", "peer"} \/ (body.tag = "val" /\ body.val # "")

\* the callback of _subscribeToCallResponse: a promise settles once, and
\* _exchangeKey goes on to _swapKey when its promise is resolved
Settle(c, payload) ==
    LET open == {q \in c.promises : q.id = payload.id /\ q.state = "pending"}
        to == IF Truthy(payload.body) THEN "resolved" ELSE "rejected"
        c1 == [c EXCEPT !.promises = (@ \ open) \cup
                 {[q EXCEPT !.state = to, !.val = payload.body.val] : q \in open}]
    IN  IF to = "resolved" /\ \E q \in open : q.awaiting = "swapKey"
        THEN _swapKey(c1) ELSE c1

\* one callback of the listener table, called with (null, payload)
Callback(c, e, payload) ==
    CASE e.callback = "app" -> Observe(c, e, payload)
      [] e.callback # "app" /\ e.event = "wc_sessionRequest" ->
           _exchangeKey([c EXCEPT
               !._handshakeId = IF payload.id # 0 THEN payload.id ELSE @,
               !._peerId = IF payload.body.peerId # "" THEN payload.body.peerId ELSE @])
      [] e.callback # "app" /\ e.event = "wc_sessionUpdate" ->
           _handleSessionResponse(c, payload.body, "Session disconnected")
      [] e.callback # "app" /\ e.event = "wc_exchangeKey" ->
           _handleExchangeKeyRequest(c, payload)
      [] e.event = "response" /\ e.callback = "call" -> Settle(c, payload)
      [] OTHER -> _handleSessionResponse(c, payload.body, e.callback)

RECURSIVE ForEach(_, _, _)
ForEach(c, eventEmitters, payload) ==
    IF eventEmitters = <<>> THEN c
    ELSE ForEach(Callback(c, Head(eventEmitters), payload), Tail(eventEmitters), payload)

_subscribeToInternalEvents(c) ==
    on(on(on(c, "wc_sessionRequest", 0, "internal"),
          "wc_sessionUpdate", 0, "internal"),
       "wc_exchangeKey", 0, "internal")

\* _triggerEvents of an inbound payload
_triggerEvents(c, payload) == ForEach(c, Listeners(c, payload), payload)

(* ------------------------------ crypto --------------------------------- *)
\* cryptoLib.decrypt: null unless the envelope was made with the same key
decrypt(payload, key) == IF payload.k = key THEN payload.msg ELSE NoMsg

_decrypt(c, payload) ==
    IF c._key # NoKey /\ payload.form = "env" THEN decrypt(payload, c._key) ELSE NoMsg

\* _socketReceive without its topic filter
SocketReceiveUnfiltered(c, socketMessage) ==
    IF _decrypt(c, socketMessage.payload) = NoMsg THEN c
    ELSE Spawn(c, Task("decrypt", c._key, _decrypt(c, socketMessage.payload), "", "trigger"))

\* _socketReceive up to the await of _decrypt; a decryption that yields null
\* has no effect when it completes
_socketReceive(c, socketMessage) ==
    IF socketMessage.topic \notin {c._clientId, c._handshakeTopic} THEN c
    ELSE IF _decrypt(c, socketMessage.payload) = NoMsg THEN c
    ELSE Spawn(c, Task("decrypt", c._key, _decrypt(c, socketMessage.payload), "", "trigger"))

\* _sendRequest and _sendResponse after the await of _encrypt
EncryptResume(c, task) ==
    LET topic == IF task.topic # "" THEN task.topic ELSE c._peerId
        c1 == Submit(c, Frame(topic, "pub", Envelope(task.k, task.msg)))
    IN  IF task.then = "swap" THEN _swapKey(c1) ELSE c1

(* ------------------------------ relay ---------------------------------- *)
\* the frames c has handed to its socket in this step
NewlySent(old, new) == SubSeq(new.sent, Len(old.sent) + 1, Len(new.sent))

RECURSIVE PubsOn(_, _)
PubsOn(frames, t) ==
    IF frames = <<>> THEN <<>>
    ELSE LET f == Head(frames)
         IN  (IF f.type = "pub" /\ f.topic = t THEN <<f>> ELSE <<>>)
                \o PubsOn(Tail(frames), t)

\* the relay takes the frames of one socket in the order they were sent
Publish(p, old, new) ==
    LET frames == NewlySent(old, new)
    IN  /\ relay' = [t \in Topics |-> relay[t] \o PubsOn(frames, t)]
        /\ subs' = [t \in Topics |->
              IF \E i \in 1..Len(frames) : frames[i].type = "sub" /\ frames[i].topic = t
              THEN subs[t] \cup {p} ELSE subs[t]]

\* the publish frames of a sequence of frames
PubFrames(frames) == {frames[i] : i \in {j \in 1..Len(frames) : frames[j].type = "pub"}}

Remove(seq, i) == SubSeq(seq, 1, i - 1) \o SubSeq(seq, i + 1, Len(seq))

(* ------------------------------ actions -------------------------------- *)
Init ==
    /\ conn = [p \in Peers |-> Fields(p, NoSession, 0)]
    /\ relay = [t \in Topics |-> <<>>]
    /\ subs = [t \in Topics |-> {}]
    /\ nextId = 1
    /\ nextGen = 1
    /\ nextUuid = 1

\* IWalletConnectOptions
NoOptions == [bridge |-> "", uri |-> NoUri, session |-> NoSession]

\* the constructor without its check of the options
ConstructorUnchecked(c0, opts) ==
    LET c1 == [c0 EXCEPT !._bridge = IF opts.bridge # "" THEN opts.bridge ELSE @]
        c2 == IF opts.uri # NoUri
              THEN _subscribeToSessionRequest(SetUri(c1, opts.uri)) ELSE c1
        s == IF opts.session.present THEN opts.session ELSE c0.store
        c3 == IF s.present THEN _exchangeKey(SetSession(c2, s)) ELSE c2
        c4 == IF c3._handshakeId # 0
              THEN _subscribeToSessionResponse(c3, c3._handshakeId,
                                               "Session request rejected")
              ELSE c3
    IN  IF c2.thrown # NoError THEN Throw(c0, c2.thrown.op, c2.thrown.message)
        ELSE IF ~opts.session.present /\ c0.store = CorruptSession
        THEN Throw(c0, "constructor", "SyntaxError")
        ELSE [_subscribeToInternalEvents(c4) EXCEPT !.alive = TRUE]

\* new Connector(cryptoLib, opts) on the field initialisers c0: the instance
\* with its socket created, or no instance and the error that was thrown
constructor(c0, opts) ==
    IF opts.bridge = "" /\ opts.uri = NoUri /\ ~opts.session.present
    THEN Throw(c0, "constructor",
               "Missing one of two required parameters: bridge / uri / session")
    ELSE LET c1 == [c0 EXCEPT !._bridge = IF opts.bridge # "" THEN opts.bridge ELSE @]
             c2 == IF opts.uri # NoUri
                   THEN _subscribeToSessionRequest(SetUri(c1, opts.uri)) ELSE c1
             s == IF opts.session.present THEN opts.session ELSE c0.store
             c3 == IF s.present THEN _exchangeKey(SetSession(c2, s)) ELSE c2
             c4 == IF c3._handshakeId # 0
                   THEN _subscribeToSessionResponse(c3, c3._handshakeId,
                                                    "Session request rejected")
                   ELSE c3
         IN  IF c2.thrown # NoError THEN Throw(c0, c2.thrown.op, c2.thrown.message)
             ELSE IF ~opts.session.present /\ c0.store = CorruptSession
             THEN Throw(c0, "constructor", "SyntaxError")
             ELSE [_subscribeToInternalEvents(c4) EXCEPT !.alive = TRUE]

\* the events the application of a page listens to: it calls on(event, cb)
\* for each right after it has constructed its Connector
AppEvents(p) ==
    IF p = "d" THEN <<"connect", "session_update", "disconnect">>
    ELSE <<"wc_sessionRequest", "call_request", "disconnect">>

RECURSIVE Listen(_, _)
Listen(c, events) ==
    IF events = <<>> THEN c
    ELSE Listen(on(c, Head(events), 0, "app"), Tail(events))

\* new Connector(cryptoLib, {bridge}), the first of the page
ConstructBridge(p) ==
    LET c0 == Fields(p, conn[p].store, 1)
        c1 == constructor(c0, [NoOptions EXCEPT !.bridge = BridgeUrl])
    IN  /\ conn[p].built = 0
        /\ conn' = [conn EXCEPT ![p] = Listen(c1, AppEvents(p))]
        /\ UNCHANGED <<relay, subs, nextId, nextGen, nextUuid>>

\* new Connector(cryptoLib, {uri}) with the URI the dApp shows
ConstructUri(p) ==
    LET o == conn[Other(p)]
        c0 == Fields(p, conn[p].store, 1)
        c1 == constructor(c0, [NoOptions EXCEPT !.uri = _formatUri(o)])
    IN  /\ conn[p].built = 0
        /\ p = "w"
        /\ o.alive /\ o._handshakeTopic # "" /\ o._key # NoKey
        /\ conn' = [conn EXCEPT ![p] = Listen(c1, AppEvents(p))]
        /\ UNCHANGED <<relay, subs, nextId, nextGen, nextUuid>>

\* the page is reloaded: its Connector and socket are gone, its storage stays,
\* and it calls new Connector(cryptoLib, {bridge}) again
Reload(p) ==
    LET c0 == Fields(p, conn[p].store, conn[p].built + 1)
        c1 == constructor(c0, [NoOptions EXCEPT !.bridge = BridgeUrl])
    IN  /\ conn[p].built > 0
        /\ conn["d"].built + conn["w"].built < Cardinality(Peers) + MaxReloads
        /\ conn' = [conn EXCEPT ![p] = Listen(c1, AppEvents(p))]
        /\ subs' = [t \in Topics |-> subs[t] \ {p}]
        /\ UNCHANGED <<relay, nextId, nextGen, nextUuid>>

\* socket.onopen
SocketOpen(p) ==
    LET c == conn[p]
        c1 == _setToQueue([c EXCEPT !._socket = TRUE],
                          Frame(c._clientId, "sub", EmptyPayload))
        c2 == _dispatchQueue(c1)
    IN  /\ c.alive /\ ~c._socket
        /\ conn' = [conn EXCEPT ![p] = c2]
        /\ Publish(p, c, c2)
        /\ UNCHANGED <<nextId, nextGen, nextUuid>>

\* socket.onmessage: the relay delivers the oldest frame of a topic
Deliver(p, t) ==
    LET c == conn[p]
        c1 == _socketReceive(c, Head(relay[t]))
    IN  /\ c.alive /\ c._socket /\ p \in subs[t]
        /\ relay[t] # <<>>
        /\ Len(c.tasks) < MaxTasks
        /\ conn' = [conn EXCEPT ![p] = c1]
        /\ relay' = [relay EXCEPT ![t] = Tail(@)]
        /\ UNCHANGED <<subs, nextId, nextGen, nextUuid>>

\* createSession up to the await of _generateKey
CreateSession(p) ==
    LET c == conn[p]
    IN  /\ p = "d"
        /\ c.alive
        /\ Len(c.tasks) < MaxTasks
        /\ conn' = [conn EXCEPT ![p] = createSession(Enter(c))]
        /\ UNCHANGED <<relay, subs, nextId, nextGen, nextUuid>>

\* cryptoLib.generateKey() resolves
GenerateKeyDone(p, i) ==
    LET c == conn[p]
        task == c.tasks[i]
        c1 == [c EXCEPT !.tasks = Remove(@, i)]
        c2 == IF task.then = "createSession"
              THEN CreateSessionResume(c1, nextGen, nextId, HandshakeTopics[nextUuid])
              ELSE ExchangeKeyResume(c1, nextGen, nextId)
    IN  /\ c.alive /\ i \in 1..Len(c.tasks)
        /\ task.kind = "generateKey"
        /\ nextGen <= MaxKeys /\ nextId <= MaxIds
        /\ task.then = "createSession" => nextUuid <= MaxUuid
        /\ conn' = [conn EXCEPT ![p] = c2]
        /\ Publish(p, c, c2)
        /\ nextGen' = nextGen + 1
        /\ nextId' = nextId + 1
        /\ nextUuid' = IF task.then = "createSession" THEN nextUuid + 1 ELSE nextUuid

\* cryptoLib.encrypt() resolves
EncryptDone(p, i) ==
    LET c == conn[p]
        task == c.tasks[i]
        c1 == EncryptResume([c EXCEPT !.tasks = Remove(@, i)], task)
    IN  /\ c.alive /\ i \in 1..Len(c.tasks)
        /\ task.kind = "encrypt"
        /\ conn' = [conn EXCEPT ![p] = c1]
        /\ Publish(p, c, c1)
        /\ UNCHANGED <<nextId, nextGen, nextUuid>>

\* cryptoLib.decrypt() resolves: _socketReceive goes on to _triggerEvents
DecryptDone(p, i) ==
    LET c == conn[p]
        task == c.tasks[i]
        c1 == _triggerEvents([c EXCEPT !.tasks = Remove(@, i)], task.msg)
    IN  /\ c.alive /\ i \in 1..Len(c.tasks)
        /\ task.kind = "decrypt"
        /\ conn' = [conn EXCEPT ![p] = c1]
        /\ Publish(p, c, c1)
        /\ UNCHANGED <<nextId, nextGen, nextUuid>>

\* the wallet application calls approveSession
ApproveSession(p) ==
    LET c == conn[p]
        c1 == approveSession(Enter([c EXCEPT !.appCalls = @ + 1]), ApprovedStatus)
    IN  /\ p = "w"
        /\ c.alive
        /\ c.appCalls < MaxAppCalls
        /\ Len(c.tasks) < MaxTasks
        /\ conn' = [conn EXCEPT ![p] = c1]
        /\ Publish(p, c, c1)
        /\ UNCHANGED <<nextId, nextGen, nextUuid>>

Step ==
    \/ \E p \in Peers : ConstructBridge(p)
    \/ \E p \in Peers : ConstructUri(p)
    \/ \E p \in Peers : SocketOpen(p)
    \/ \E p \in Peers, t \in Topics : Deliver(p, t)
    \/ \E p \in Peers : CreateSession(p)
    \/ \E p \in Peers, i \in 1..MaxTasks + 1 : GenerateKeyDone(p, i)
    \/ \E p \in Peers, i \in 1..MaxTasks + 1 : EncryptDone(p, i)
    \/ \E p \in Peers, i \in 1..MaxTasks + 1 : DecryptDone(p, i)
    \/ \E p \in Peers : ApproveSession(p)

\* the two pages without a reload
Next == Step

Spec == Init /\ [][Next]_vars

\* the two pages, each of which may be reloaded
NextReload == Step \/ \E p \in Peers : Reload(p)

SpecReload == Init /\ [][NextReload]_vars

(* ------------------- the rest of the public interface ------------------ *)
\* a public method called by the application of page p
Call(p, c1) ==
    /\ conn[p].alive
    /\ conn[p].appCalls < MaxAppCalls
    /\ Len(conn[p].tasks) < MaxTasks
    /\ conn' = [conn EXCEPT ![p] = [c1 EXCEPT !.appCalls = @ + 1]]
    /\ Publish(p, conn[p], c1)

\* a public method that allocates a request id when it does not throw
CallWithId(p, c1) ==
    /\ nextId <= MaxIds
    /\ Call(p, c1)
    /\ nextId' = IF c1.thrown = NoError THEN nextId + 1 ELSE nextId
    /\ UNCHANGED <<nextGen, nextUuid>>

RejectSession(p) ==
    \E message \in Messages :
        /\ p = "w"
        /\ Call(p, rejectSession(Enter(conn[p]), message))
        /\ UNCHANGED <<nextId, nextGen, nextUuid>>

UpdateSession(p) == CallWithId(p, updateSession(Enter(conn[p]), UpdatedStatus, nextId))

KillSession(p) ==
    \E message \in Messages : CallWithId(p, killSession(Enter(conn[p]), message, nextId))

SendTransaction(p) == p = "d" /\ CallWithId(p, sendTransaction(Enter(conn[p]), nextId))

SignMessage(p) == p = "d" /\ CallWithId(p, signMessage(Enter(conn[p]), nextId))

SignTypedData(p) == p = "d" /\ CallWithId(p, signTypedData(Enter(conn[p]), nextId))

\* the ids of the requests the application was handed by its listeners
ReceivedIds(c) ==
    {c.events[i].id : i \in {j \in 1..Len(c.events) : c.events[j].kind = "req"}}

\* the wallet application answers a request it was handed with a result
ApproveRequest(p) ==
    \E id \in ReceivedIds(conn[p]), result \in Results :
        /\ p = "w"
        /\ Call(p, approveRequest(Enter(conn[p]), Response(id, Value(result))))
        /\ UNCHANGED <<nextId, nextGen, nextUuid>>

\* the wallet application answers a request it was handed with an error
RejectRequest(p) ==
    \E id \in ReceivedIds(conn[p]) :
        /\ p = "w"
        /\ Call(p, rejectRequest(Enter(conn[p]), ErrorResponse(id, "rejected")))
        /\ UNCHANGED <<nextId, nextGen, nextUuid>>

\* the frames that went through the bridge
Published == UNION {PubFrames(conn[q].sent) : q \in Peers}

\* socket.onmessage with a frame the bridge has seen before, whatever the
\* subscriptions of the socket: a frame delivered twice or to the wrong socket
SocketMessage(p) ==
    \E f \in Published :
        LET c == [conn[p] EXCEPT !.heard = Append(@, f)]
        IN  /\ c.alive /\ c._socket
            /\ Len(conn["d"].heard) + Len(conn["w"].heard) < MaxReplays
            /\ Len(c.tasks) < MaxTasks
            /\ conn' = [conn EXCEPT ![p] = _socketReceive(c, f)]
            /\ UNCHANGED <<relay, subs, nextId, nextGen, nextUuid>>

\* the two pages with the session methods of the public interface
NextSession ==
    \/ Step
    \/ \E p \in Peers : RejectSession(p)
    \/ \E p \in Peers : UpdateSession(p)
    \/ \E p \in Peers : KillSession(p)

SpecSession == Init /\ [][NextSession]_vars

\* the two pages with the methods that need a connected session
NextGuarded ==
    \/ Step
    \/ \E p \in Peers : UpdateSession(p)
    \/ \E p \in Peers : KillSession(p)
    \/ \E p \in Peers : SendTransaction(p)
    \/ \E p \in Peers : SignMessage(p)
    \/ \E p \in Peers : SignTypedData(p)

SpecGuarded == Init /\ [][NextGuarded]_vars

\* the two pages with the calls of the dApp and the answers of the wallet
NextCalls ==
    \/ Step
    \/ \E p \in Peers : SendTransaction(p)
    \/ \E p \in Peers : SignMessage(p)
    \/ \E p \in Peers : SignTypedData(p)
    \/ \E p \in Peers : ApproveRequest(p)
    \/ \E p \in Peers : RejectRequest(p)

SpecCalls == Init /\ [][NextCalls]_vars

\* the two pages and a bridge that may repeat or misroute a frame
NextBridge == Step \/ \E p \in Peers : SocketMessage(p)

SpecBridge == Init /\ [][NextBridge]_vars

\* the snapshot a connected page has saved in its storage slot
SavedSession(p) ==
    [present |-> TRUE, connected |-> TRUE, accounts |-> ApprovedStatus.accounts,
     chainId |-> ApprovedStatus.chainId, bridge |-> BridgeUrl, key |-> 1,
     clientId |-> p, peerId |-> IF p = "w" THEN "d" ELSE "",
     handshakeId |-> 1, handshakeTopic |-> "h1"]

\* the options an application may pass to the constructor
Options(p) ==
    [bridge : {"", BridgeUrl}, uri : {NoUri} \cup Uris,
     session : {NoSession, SavedSession(p)}]

\* a page that was never loaded, or was loaded before and has left its
\* snapshot, or an unreadable text, in the storage slot
InitConstruct ==
    /\ conn \in [Peers -> UNION {{Fields(p, NoSession, 0), Fields(p, SavedSession(p), 0),
                                   Fields(p, CorruptSession, 0)} : p \in Peers}]
    /\ \A p \in Peers : conn[p]._clientId = p
    /\ relay = [t \in Topics |-> <<>>]
    /\ subs = [t \in Topics |-> {}]
    /\ nextId = 2
    /\ nextGen = 2
    /\ nextUuid = 2

\* new Connector(cryptoLib, opts), the first of the page to succeed
Construct(p, opts) ==
    LET c1 == constructor(Fields(p, conn[p].store, 0), opts)
    IN  /\ conn[p].built = 0
        /\ conn' = [conn EXCEPT ![p] =
                IF c1.alive THEN Listen([c1 EXCEPT !.built = 1], AppEvents(p)) ELSE c1]
        /\ UNCHANGED <<relay, subs, nextId, nextGen, nextUuid>>

\* the application assigns connector.uri
AssignUri(p, value) ==
    LET c == conn[p]
    IN  /\ c.alive
        /\ conn' = [conn EXCEPT ![p] = SetUri(Enter(c), value)]
        /\ UNCHANGED <<relay, subs, nextId, nextGen, nextUuid>>

NextConstruct ==
    \/ \E p \in Peers : \E opts \in Options(p) : Construct(p, opts)
    \/ \E p \in Peers, value \in {NoUri} \cup Uris : AssignUri(p, value)
    \/ \E p \in Peers : SocketOpen(p)
    \/ \E p \in Peers, i \in 1..MaxTasks + 1 : GenerateKeyDone(p, i)
    \/ \E p \in Peers, i \in 1..MaxTasks + 1 : EncryptDone(p, i)

\* the admission of constructor options and of URIs
SpecConstruct == InitConstruct /\ [][NextConstruct]_vars

(* ------------------------------ claims --------------------------------- *)

\* every frame p has built: handed to the socket, or waiting in the queue
Emitted(p) == PubFrames(conn[p].sent) \cup PubFrames(conn[p]._queue)

\* nothing is pending: every crypto operation has completed, every socket is
\* open, every queue is drained, and the relay has delivered all it can
Quiescent ==
    /\ \A p \in Peers : conn[p].alive => /\ conn[p].tasks = <<>>
                                         /\ conn[p]._socket
                                         /\ conn[p]._queue = <<>>
    /\ \A t \in Topics : subs[t] = {} \/ relay[t] = <<>>

\* the two connectors are in one handshake: the wallet was constructed from the
\* URI of the session request the dApp has stored
SameHandshake ==
    /\ conn["d"].alive /\ conn["w"].alive
    /\ conn["d"]._handshakeTopic # ""
    /\ conn["w"]._handshakeTopic = conn["d"]._handshakeTopic

\* the wallet has received the dApp's wc_sessionRequest and then approved it
WalletApproved ==
    /\ SameHandshake
    /\ conn["d"]._handshakeId # 0
    /\ \E f \in PubFrames(conn["w"].sent) :
          /\ f.payload.msg.kind = "res"
          /\ f.payload.msg.id = conn["d"]._handshakeId
          /\ f.payload.msg.body = SessionParams(TRUE, ApprovedStatus.chainId,
                                                 ApprovedStatus.accounts, "")

\* C1: once the wallet has approved the session request it received and every
\* frame has been delivered and handled, the dApp is connected with the
\* approved chainId and accounts, has fired connect with them and has its
\* storage slot populated
C1_HandshakeCompletes ==
    (WalletApproved /\ Quiescent) =>
        /\ conn["d"]._connected
        /\ conn["d"]._chainId = ApprovedStatus.chainId
        /\ conn["d"]._accounts = ApprovedStatus.accounts
        /\ \E i \in 1..Len(conn["d"].events) :
              /\ conn["d"].events[i].event = "connect"
              /\ conn["d"].events[i].body.chainId = ApprovedStatus.chainId
              /\ conn["d"].events[i].body.accounts = ApprovedStatus.accounts
        /\ conn["d"].store.present

IsExchangeRequest(f) ==
    f.payload.form = "env" /\ f.payload.msg.method = "wc_exchangeKey"

\* the response of _handleExchangeKeyRequest: {id, result: true}
IsAck(f) ==
    /\ f.payload.form = "env"
    /\ f.payload.msg.kind = "res"
    /\ f.payload.msg.body = Value("true")

\* every wc_exchangeKey request a connector has sent was answered by an ack of
\* the other connector, and at least one was
ExchangesAcked ==
    /\ \A p \in Peers : \A f \in PubFrames(conn[p].sent) :
          IsExchangeRequest(f) =>
              \E a \in PubFrames(conn[Other(p)].sent) :
                  IsAck(a) /\ a.payload.msg.id = f.payload.msg.id
    /\ \E p \in Peers : \E f \in PubFrames(conn[p].sent) : IsExchangeRequest(f)

\* C2: once every wc_exchangeKey request and its ack have been sent, delivered
\* and handled, the two peers hold the same non-empty key and no nextKey
C2_KeyAgreement ==
    (SameHandshake /\ ExchangesAcked /\ Quiescent) =>
        /\ conn["d"]._key = conn["w"]._key
        /\ conn["d"]._key # NoKey
        /\ conn["d"]._nextKey = NoKey
        /\ conn["w"]._nextKey = NoKey

\* C3: a frame that arrives on an active topic of a connector of the same
\* handshake is decrypted: it is not dropped because the key it was encrypted
\* under is not the key the recipient holds when it arrives
C3_InFlightDecryptable ==
    [][\A p \in Peers, t \in Topics :
          (/\ Deliver(p, t)
           /\ SameHandshake
           /\ t \in {conn[p]._clientId, conn[p]._handshakeTopic}
           /\ Head(relay[t]).payload.form = "env")
          => _decrypt(conn[p], Head(relay[t]).payload) # NoMsg]_vars

\* C4: _swapKey runs only once the connector has sent the ack (responder) or
\* has had its wc_exchangeKey promise resolved by the ack (initiator), and once
\* an ack under a key has been handed to a socket no peer hands a frame
\* encrypted under that key to its socket
C4_AckIsLastUnderOldKey ==
    [][\A q \in Peers :
          /\ (conn[q]._nextKey # NoKey /\ conn'[q]._nextKey = NoKey
                /\ conn'[q].built = conn[q].built)
              => \/ \E a \in PubFrames(conn'[q].sent) \cup PubFrames(conn'[q]._queue) :
                       IsAck(a)
                 \/ \E r \in conn'[q].promises :
                       r.awaiting = "swapKey" /\ r.state = "resolved"
          /\ \A i \in 1..Len(NewlySent(conn[q], conn'[q])) :
                LET f == NewlySent(conn[q], conn'[q])[i]
                IN  f.payload.form = "env" =>
                      ~\E p \in Peers : \E a \in PubFrames(conn[p].sent) :
                          IsAck(a) /\ a.payload.k = f.payload.k]_vars

\* C5: no wc_exchangeKey request is issued while nextKey is non-empty
C5_OneExchangeInFlight == \A p \in Peers : ~conn[p].overlap

\* C6: no snapshot in storage has an empty key, and no outbound payload was
\* encrypted without a key
C6_KeyPresent ==
    \A p \in Peers :
        /\ conn[p].store.present => conn[p].store.key # NoKey
        /\ \A f \in Emitted(p) : f.payload.form # "null"

\* C7: when the socket opens, the subscribe frame for clientId is sent first
\* and the queued frames follow in the order of the queue
C7_SubscribeFirst ==
    [][\A p \in Peers :
          SocketOpen(p) =>
              NewlySent(conn[p], conn'[p]) =
                  <<Frame(conn[p]._clientId, "sub", EmptyPayload)>> \o conn[p]._queue]_vars

\* C8: every publish frame handed to the socket or the queue has a non-empty
\* topic, the peerId or a handshake topic, and an encrypted payload
C8_FramesWellFormed ==
    \A p \in Peers : \A f \in Emitted(p) :
        /\ f.topic # ""
        /\ \/ f.topic = conn[p]._peerId
           \/ \E i \in 1..Len(HandshakeTopics) : f.topic = HandshakeTopics[i]
        /\ f.payload.form = "env"

\* C9: a step that starts without a key emits no frame for the payload it
\* could not encrypt: every publish frame it sends or queues carries an envelope
C9_NoFrameWithoutKey ==
    [][\A p \in Peers :
          (conn[p].alive /\ conn'[p].built = conn[p].built /\ conn[p]._key = NoKey)
          => \A f \in PubFrames(conn'[p].sent) \cup PubFrames(conn'[p]._queue) :
                f \in Emitted(p) \/ f.payload.form = "env"]_vars

\* C10: no connector is pending and connected at once
C10_StateExclusive ==
    \A p \in Peers : conn[p].alive => ~(pending(conn[p]) /\ conn[p]._connected)

\* the frame socket.onmessage of p is handed in this step by the bridge
\* outside the subscriptions
Hears(p) == Len(conn'[p].heard) = Len(conn[p].heard) + 1

HeardFrame(p) == conn'[p].heard[Len(conn'[p].heard)]

\* what a dropped frame leaves of connector p
Dropped(p) == conn'[p] = [conn[p] EXCEPT !.heard = conn'[p].heard]

\* C11: once a connector is connected and knows its peerId, a frame whose
\* topic is its handshakeTopic and not its clientId is dropped: nothing is
\* decrypted and nothing of the connector changes
C11_HandshakeTopicRetired ==
    [][\A p \in Peers :
          /\ (/\ Hears(p)
               /\ conn[p]._connected /\ conn[p]._peerId # ""
               /\ HeardFrame(p).topic = conn[p]._handshakeTopic
               /\ HeardFrame(p).topic # conn[p]._clientId)
              => Dropped(p)
          /\ \A t \in Topics :
                (/\ Deliver(p, t)
                 /\ conn[p]._connected /\ conn[p]._peerId # ""
                 /\ t = conn[p]._handshakeTopic /\ t # conn[p]._clientId)
                => conn'[p] = conn[p]]_vars

\* C12: a frame whose topic is neither clientId nor handshakeTopic is dropped:
\* no decryption is started, no listener is called, and the session fields,
\* the keys, the queue and the storage of the connector are unchanged
C12_ForeignTopicDropped ==
    [][\A p \in Peers :
          /\ (/\ Hears(p)
               /\ HeardFrame(p).topic \notin {conn[p]._clientId, conn[p]._handshakeTopic})
              => Dropped(p)
          /\ \A t \in Topics :
                (Deliver(p, t) /\ t \notin {conn[p]._clientId, conn[p]._handshakeTopic})
                => conn'[p] = conn[p]]_vars

\* a connector whose key would decrypt it was handed a frame of a foreign topic
C12_Witness ==
    \E p \in Peers :
        /\ conn[p].heard # <<>>
        /\ conn[p].heard[1].topic \notin {p, conn[p]._handshakeTopic}
        /\ conn[p].heard[1].payload.form = "env"
        /\ conn[p].heard[1].payload.k = conn[p]._key

\* connector p makes a public call in this step
Calls(p) == conn'[p].appCalls = conn[p].appCalls + 1

\* the last event the application of p was handed
LastEvent(c) == c.events[Len(c.events)]

KillParams(message) == SessionParams(FALSE, 0, NullAccounts, message)

\* p calls killSession({message}) on a connected session in this step
Kills(p, message) ==
    /\ KillSession(p) /\ Calls(p) /\ conn[p]._connected
    /\ Len(conn'[p].events) = Len(conn[p].events) + 1
    /\ LastEvent(conn'[p]).body.message = message

\* p is handed a wc_sessionUpdate with approved: false in this step
IsNegativeUpdate(task) ==
    /\ task.kind = "decrypt"
    /\ task.msg.kind = "req" /\ task.msg.method = "wc_sessionUpdate"
    /\ ~task.msg.body.approved

\* C13: killSession({message: m}) on a connected session leaves
\* connected false and the storage slot empty, fires disconnect with m and
\* has the wc_sessionUpdate request (approved false, message m) encrypted for
\* the peer's topic; a negative wc_sessionUpdate leaves connected false and
\* the slot empty
C13_KillStep ==
    [][\A p \in Peers :
          /\ \A message \in Messages :
                Kills(p, message) =>
                    /\ ~conn'[p]._connected
                    /\ ~conn'[p].store.present
                    /\ LastEvent(conn'[p]).key = "disconnect"
                    /\ \E i \in 1..Len(conn'[p].tasks) :
                          /\ conn'[p].tasks[i].kind = "encrypt"
                          /\ conn'[p].tasks[i].msg.method = "wc_sessionUpdate"
                          /\ conn'[p].tasks[i].msg.body = KillParams(message)
                    /\ conn[p]._peerId = Other(p)
          /\ \A i \in 1..Len(conn[p].tasks) :
                (DecryptDone(p, i) /\ IsNegativeUpdate(conn[p].tasks[i]))
                => ~conn'[p]._connected /\ ~conn'[p].store.present]_vars

\* p calls a method that needs a connected session in this step
CallsGuarded(p) ==
    /\ Calls(p)
    /\ \/ UpdateSession(p) \/ KillSession(p)
       \/ SendTransaction(p) \/ SignMessage(p) \/ SignTypedData(p)

\* C14: updateSession, killSession, sendTransaction, signMessage and
\* signTypedData called while connected is false raise "Session currently
\* disconnected" and do nothing else: no frame, no pending encryption, no
\* listener, no event, no request id, and chainId, accounts and storage as
\* they were
C14_FailFast ==
    [][\A p \in Peers :
          (CallsGuarded(p) /\ ~conn[p]._connected) =>
              /\ conn'[p].thrown.message = "Session currently disconnected"
              /\ conn'[p] = [conn[p] EXCEPT !.appCalls = @ + 1,
                                            !.thrown = conn'[p].thrown]
              /\ UNCHANGED <<relay, subs, nextId>>]_vars

\* a killSession was refused on a connector that is no longer connected and
\* has a key, a peer and a storage slot to lose
C14_Witness ==
    \E p \in Peers :
        /\ conn[p].thrown.op = "killSession"
        /\ ~conn[p]._connected
        /\ conn[p]._key # NoKey /\ conn[p]._peerId # ""
        /\ conn[p].store.present

\* p calls a method that needs a session that is not connected in this step;
\* createSession is not counted among the calls of the application
CallsUnconnected(p) ==
    \/ Calls(p) /\ (ApproveSession(p) \/ RejectSession(p))
    \/ CreateSession(p)

\* C15: approveSession, rejectSession and createSession called while
\* connected is true raise "Session currently connected" and leave chainId,
\* accounts, key, handshakeId, handshakeTopic, the frames and the storage as
\* they were; so a second approveSession raises
C15_ConnectedRaises ==
    [][\A p \in Peers :
          (CallsUnconnected(p) /\ conn[p]._connected) =>
              /\ conn'[p].thrown.message = "Session currently connected"
              /\ conn'[p] = [conn[p] EXCEPT !.appCalls = conn'[p].appCalls,
                                            !.thrown = conn'[p].thrown]
              /\ UNCHANGED <<relay, subs, nextId, nextGen, nextUuid>>]_vars

\* the wallet has approved and its second approveSession was refused
C15_Witness ==
    /\ conn["w"].thrown.op = "approveSession"
    /\ conn["w"].appCalls = 2
    /\ conn["w"]._connected
    /\ \E f \in Emitted("w") : f.payload.form = "env" /\ f.payload.msg.body.approved

IsSessionUpdate(task) ==
    /\ task.kind = "decrypt"
    /\ task.msg.kind = "req" /\ task.msg.method = "wc_sessionUpdate"

CallPromises(c) == {r \in c.promises : r.awaiting = "caller"}

\* connector p is handed the response `task` decrypted to in this step
HandlesResponse(p, i) ==
    /\ DecryptDone(p, i)
    /\ conn[p].tasks[i].msg.kind = "res"

\* C17: the promise of a call is settled only by a response with the id of
\* its request, and that response resolves it with the result it carries,
\* whatever the result is
C17_CallCorrelation ==
    [][\A p \in Peers : \A r \in CallPromises(conn[p]) :
          r.state = "pending" =>
              /\ r \notin conn'[p].promises =>
                    \E i \in 1..Len(conn[p].tasks) :
                        HandlesResponse(p, i) /\ conn[p].tasks[i].msg.id = r.id
              /\ \A i \in 1..Len(conn[p].tasks) :
                    (HandlesResponse(p, i) /\ conn[p].tasks[i].msg.id = r.id) =>
                        [r EXCEPT !.state = "resolved",
                                  !.val = conn[p].tasks[i].msg.body.val]
                            \in conn'[p].promises]_vars

\* C18: a response that has the id of a pending call and no result field
\* rejects the promise of that call
C18_ErrorRejects ==
    [][\A p \in Peers : \A r \in CallPromises(conn[p]) :
          \A i \in 1..Len(conn[p].tasks) :
              (/\ r.state = "pending"
               /\ DecryptDone(p, i)
               /\ conn[p].tasks[i].msg.kind = "err"
               /\ conn[p].tasks[i].msg.id = r.id)
              => \E q \in CallPromises(conn'[p]) :
                    q.id = r.id /\ q.state = "rejected"]_vars

\* C19: a listener of the application is called with a payload of its own
\* event key, or it is a call_request listener that is called, in place of
\* the listeners of the key, with a request no listener is registered for;
\* a call_request listener is not handed a response or a synthetic event
C19_Dispatch ==
    \A p \in Peers : \A i \in 1..Len(conn[p].events) :
        LET e == conn[p].events[i]
        IN  \/ e.event = e.key
            \/ /\ e.event = "call_request"
               /\ e.kind = "req"
               /\ ~\E j \in 1..Len(conn[p]._eventEmitters) :
                      conn[p]._eventEmitters[j].event = e.key

\* the state of a wallet before its first session request: not connected and
\* no request recorded
Fresh(c) == ~c._connected /\ c._handshakeId = 0 /\ c._peerId = ""

ExchangesStarted(c) ==
    Cardinality({i \in 1..Len(c.tasks) : c.tasks[i].then = "exchangeKey"})

\* C20: a wc_sessionRequest handed to a wallet that is not fresh (it has
\* recorded an earlier request, or it is connected) changes neither
\* handshakeId nor peerId and starts no key exchange
C20_SessionRequestOnlyFresh ==
    [][\A i \in 1..Len(conn["w"].tasks) :
          (/\ DecryptDone("w", i)
           /\ conn["w"].tasks[i].msg.method = "wc_sessionRequest"
           /\ ~Fresh(conn["w"]))
          => /\ conn'["w"]._handshakeId = conn["w"]._handshakeId
             /\ conn'["w"]._peerId = conn["w"]._peerId
             /\ ExchangesStarted(conn'["w"]) <= ExchangesStarted(conn["w"])]_vars

\* at least one of bridge, uri, session is in the options
Supplied(opts) == opts.bridge # "" \/ opts.uri # NoUri \/ opts.session.present
\* a URI with the protocol "wc" and a handshake topic, a bridge and a key
WellFormed(uri) ==
    uri.protocol = "wc" /\ uri.handshakeTopic # "" /\ uri.bridge # "" /\ uri.key # NoKey
\* the session the constructor looks at: the option, else the storage slot
Offered(p, opts) == IF opts.session.present THEN opts.session ELSE conn[p].store

C22_UriAdmission ==
    [][\A p \in Peers : \A value \in Uris : AssignUri(p, value) =>
         LET c == conn[p]
             c1 == conn'[p]
         IN  IF WellFormed(value) /\ value.version = 1
             THEN /\ c1.thrown = NoError
                  /\ c1._handshakeTopic = value.handshakeTopic
                  /\ c1._bridge = BridgeUrl
                  /\ c1._key = value.key
             ELSE /\ c1.thrown # NoError
                  /\ c1._handshakeTopic = c._handshakeTopic
                  /\ c1._bridge = c._bridge
                  /\ c1._key = c._key]_vars

\* connector c is in a handshake or a session and its application has been
\* handed a disconnect: killSession, rejectSession or a negative
\* wc_sessionUpdate has ended the session
Terminated(c) ==
    /\ c._handshakeTopic # ""
    /\ \E i \in 1..Len(c.events) : c.events[i].key = "disconnect"

\* C23: a connector whose session was ended by killSession, rejectSession or
\* a negative wc_sessionUpdate is never connected again and its storage slot
\* stays empty, whatever arrives or is called afterwards
C23_TerminationAbsorbing ==
    \A p \in Peers :
        conn[p].alive /\ Terminated(conn[p]) =>
            ~conn[p]._connected /\ ~conn[p].store.present

\* the wc_sessionRequest requests connector c has built so far, each with the
\* key it is encrypted under and the topic it is published on
SessionRequests(c) ==
    {[msg |-> c.tasks[i].msg, k |-> c.tasks[i].k, topic |-> c.tasks[i].topic] :
        i \in {j \in 1..Len(c.tasks) : /\ c.tasks[j].kind = "encrypt"
                                         /\ c.tasks[j].msg.method = "wc_sessionRequest"}}
    \cup {[msg |-> f.payload.msg, k |-> f.payload.k, topic |-> f.topic] :
            f \in {g \in PubFrames(c.sent) \cup PubFrames(c._queue) :
                      g.payload.msg.method = "wc_sessionRequest"}}

\* connector c has not answered a wc_exchangeKey, so it has not swapped keys
NeverSwapped(c) ==
    /\ \A f \in PubFrames(c.sent) \cup PubFrames(c._queue) : f.payload.msg.kind # "res"
    /\ \A i \in 1..Len(c.tasks) : c.tasks[i].msg.kind # "res"

\* C24: however many createSession calls the dApp makes, overlapping or not,
\* its first connector builds at most one wc_sessionRequest; that request
\* carries peerId = clientId, goes to handshakeTopic, has the id stored as
\* handshakeId and is encrypted under the key of the session
C24_OneHandshake ==
    LET c == conn["d"]
    IN  c.alive /\ c.built = 1 =>
            /\ Cardinality(SessionRequests(c)) <= 1
            /\ \A r \in SessionRequests(c) :
                  /\ r.msg.body.peerId = c._clientId
                  /\ r.topic = c._handshakeTopic
                  /\ r.msg.id = c._handshakeId
                  /\ NeverSwapped(c) => r.k = c._key

\* the frames of killSession calls of p: wc_sessionUpdate with approved false
KillFrames(p) ==
    {f \in PubFrames(conn[p].sent) :
        /\ f.payload.msg.method = "wc_sessionUpdate"
        /\ ~f.payload.msg.body.approved}

\* the relay has delivered frame f of p to the other peer
Delivered(p, f) ==
    /\ f.topic = Other(p)
    /\ Other(p) \in subs[f.topic]
    /\ \A i \in 1..Len(relay[f.topic]) : relay[f.topic][i] # f

\* C25: once the relay has delivered the frame of a killSession call of a
\* connected peer and nothing is pending any more, the other peer is not
\* connected, its application has been handed disconnect and its storage
\* slot is empty
C25_KillPropagates ==
    \A p \in Peers :
        (/\ conn["d"].alive /\ conn["w"].alive
         /\ Quiescent
         /\ \E f \in KillFrames(p) : Delivered(p, f))
        => /\ ~conn[Other(p)]._connected
           /\ \E i \in 1..Len(conn[Other(p)].events) :
                 conn[Other(p)].events[i].key = "disconnect"
           /\ ~conn[Other(p)].store.present

\* the frames connector c has handed to its socket or holds in its queue
Handed(c) == c.sent \o c._queue

\* task i of p is an encryption for a frame submitted while the socket was open
SubmittedOpen(p, i) ==
    /\ i \in 1..Len(conn[p].tasks)
    /\ conn[p].tasks[i].kind = "encrypt" /\ conn[p].tasks[i].open

\* C26: a frame whose encryption completes goes to the queue when the socket
\* is not open and to the socket when it is, once; the open sends the queue
\* in order and then the subscription to clientId; the queue is empty while
\* the socket is open; and a frame submitted after the open is not sent
\* while a frame submitted after the open and before it is still unsent
C26_ExactlyOnce ==
    [][\A p \in Peers :
          LET c == conn[p]
              c1 == conn'[p]
          IN  /\ c1._socket => c1._queue = <<>>
              /\ \A i \in 1..Len(c.tasks) :
                    EncryptDone(p, i) =>
                        /\ Len(Handed(c1)) = Len(Handed(c)) + 1
                        /\ SubSeq(Handed(c1), 1, Len(Handed(c))) = Handed(c)
                        /\ Handed(c1)[Len(Handed(c1))].payload =
                                Envelope(c.tasks[i].k, c.tasks[i].msg)
                        /\ c._socket <=> Len(c1.sent) = Len(c.sent) + 1
                        /\ SubmittedOpen(p, i) =>
                                \A j \in 1..(i - 1) : ~SubmittedOpen(p, j)
              /\ SocketOpen(p) =>
                    c1.sent = Handed(c) \o <<Frame(c._clientId, "sub", EmptyPayload)>>]_vars
====
